---- MODULE Spec2Model ----
(***************************************************************************)
(* Word-level RNN trained on a token stream (sherlock_hand_GRU.ipynb).     *)
(*                                                                         *)
(* Spec        the Train cell: the epoch loop draining feeder(), one       *)
(*             sess.run of the train op per batch, the moving-average loss *)
(*             buffer and the per-epoch checkpoint.                        *)
(* SpecFeeder  the same loop over feeder() with the batches only drained,  *)
(*             on longer streams and passes.                               *)
(* SpecLoop    the Train cell with the body of the batch loop followed     *)
(*             statement by statement, on runs of one lane.                *)
(* SpecTerminate  the same, with every statement that can run being run.   *)
(* SpecRerun   the same, with the Train cell executed a second time.       *)
(* SpecDiverge the same, with batches whose loss overflows.                *)
(* SpecSaveFail  the same, with checkpoint writes that fail.               *)
(* SpecRestore the Train cell followed by the restore of its last          *)
(*             checkpoint into a graph of one lane.                        *)
(* SpecCell    the hand-coded GRU cell() as a pure function, applied to    *)
(*             inputs drawn from bounded sets and threaded as model()      *)
(*             does.                                                       *)
(* SpecModel   model(): the recurrence unrolled over the windows fed to    *)
(*             successive runs of the graph.                               *)
(* SpecPredict the Predict cell of the LSTM notebook, executed twice.      *)
(* SpecComponents  the three of them side by side: a training run followed *)
(*             statement by statement, the unrolled forward pass, and the  *)
(*             Predict cell.                                               *)
(*                                                                         *)
(* Python indices are 0-based; TLA+ sequences are 1-based, so element k of *)
(* a Python list is element k+1 of the sequence that models it.  Arrays    *)
(* that the code indexes by row and column are functions on 0..n-1.        *)
(***************************************************************************)
EXTENDS Integers, Sequences, FiniteSets, TLC

VARIABLES
    word_array,      \* the token stream handed to feeder() and epoch_len()
    config,          \* the Config object: batch_size, num_rnn_steps, epochs
    move_avg_len,    \* Train cell: number of batches to average loss over
    pc,              \* position in the Train cell
    e,               \* Train cell: the epoch loop variable
    raised,          \* the exception that ended the run, "none" while running
    total,           \* value of epoch_len() handed to the progress bar
    gen,             \* feeder() generator frame: "none", "created", "running", "exhausted"
    batch_width,     \* feeder() local
    data,            \* feeder() local: the reshaped token grid
    shuffle_index,   \* feeder() local: the shuffled list of start columns
    pos,             \* feeder() local: number of elements of shuffle_index consumed
    feed,            \* Train cell: the batch t = (x, y) being processed, with its start column
    h_init,          \* GRU/h_init variable, shape (batch_size, rnn_size)
    step,            \* the global_step variable
    move_avg_loss,   \* Train cell: the loss buffer
    checkpoints,     \* files kept by g.saver, oldest first
    reported,        \* the last "Epoch #.. Loss" line printed: the buffer's sum over its length
    summaries,       \* number of summaries written
    passes,          \* history: per completed feeder() pass, its arguments, first start column and batches
    cell_x,          \* cell(): argument x
    cell_h_1,        \* cell(): argument h_1
    cell_params,     \* cell(): the GRU scope variables Wr, Wz, W, br, bz, b
    cell_h,          \* cell(): the returned h
    cell_calls,      \* number of cell() applications made so far
    s,               \* model(): the list s of recurrent states of one lane
    applied,         \* model(): the cell() applications of the current run, in order
    rnn_last_output, \* model(): the state handed to the hidden layer
    batch_loss,      \* Train cell: the loss returned by the last sess.run, -1 before it
    fetched_step,    \* Train cell: its local step, the fetched value of g.step, -1 before it
    recent,          \* history: slot written and loss of the last move_avg_len batches
    restored,        \* Predict cell: the variables g.saver.restore() loads from last_saved
    argmax_ties,     \* which of several maximal scores the build's tf.argmax returns
    start,           \* Predict cell: start position in document
    input,           \* Predict cell: the seed followed by the predictions
    pred,            \* Predict cell: the last prediction, -1 before it
    pred_i,          \* Predict cell: iterations of the prediction loop completed
    runs,            \* number of completed executions of the Predict cell
    first_run,       \* history: input at the end of the first execution
    train_run,       \* number of completed executions of the Train cell
    first_train      \* history: what the first execution of the Train cell went through

train_vars == <<word_array, config, move_avg_len, pc, e, raised, total, gen,
                batch_width, data, shuffle_index, pos, feed, h_init, step,
                move_avg_loss, checkpoints, reported, summaries, passes>>
cell_vars == <<cell_x, cell_h_1, cell_params, cell_h, cell_calls>>
model_vars == <<s, applied, rnn_last_output>>
loop_vars == <<batch_loss, fetched_step, recent>>
predict_vars == <<restored, argmax_ties, start, input, pred, pred_i, runs, first_run>>
rerun_vars == <<train_run, first_train>>
vars == <<train_vars, cell_vars, model_vars, loop_vars, predict_vars, rerun_vars>>

(***************************************************************************)
(* Bounds of the model.                                                    *)
(***************************************************************************)
MaxLen == 8        \* longest token stream
MaxTrainLen == 6   \* longest token stream of a training run
MaxRows == 2       \* largest config.batch_size
MaxSteps == 2      \* largest config.num_rnn_steps
MaxBatches == 2    \* most batches in one epoch of a training run
MaxPass == 4       \* most batches in one pass of feeder() on its own
RnnSize == 1       \* config.rnn_size, the number of recurrent units
EmbedSize == 1     \* config.embed_size
Q == 4             \* precision of the arithmetic: numbers are multiples of 1/Q
MaxCellSteps == 2  \* most cell() applications threaded one after another
MaxRuns == 2       \* most runs of the graph on windows fed one after another
MaxEpochs == 3     \* largest config.epochs of a run followed statement by statement
MaxRunBatches == 4 \* most batches in all of a run followed statement by statement

Min(a, b) == IF a <= b THEN a ELSE b
Max(a, b) == IF a >= b THEN a ELSE b

(***************************************************************************)
(* Inputs.  docload.build_word_array() is outside the repository's core:   *)
(* it delivers a sequence of token ids.  The streams tried are the ones    *)
(* whose token at position k is k * m modulo the vocabulary size: m = 1    *)
(* gives every position its own token (the 0..9 stream of scenario A),     *)
(* m = 2 gives a repeating stream.                                         *)
(***************************************************************************)
vocab_size == MaxLen + 1

Strides == {1, 2}

Streams == { [k \in 1..L |-> ((k - 1) * m) % vocab_size] : L \in 0..MaxLen, m \in Strides }

\* Config.__init__: self.epochs = 2
epochs == 2

\* the configurations tried: runs of one epoch and of the notebook's two
Configs == [batch_size : 0..MaxRows, num_rnn_steps : 1..MaxSteps, epochs : 1..epochs]

\* the runs tried: any stream of at most longest tokens with any configuration,
\* as long as an epoch has at most most batches
Runs(longest, most) ==
    { run \in [w : Streams, cfg : Configs] :
        /\ Len(run.w) <= longest
        /\ run.cfg.batch_size > 0 =>
              (Len(run.w) \div run.cfg.batch_size) - run.cfg.num_rnn_steps - 1 <= most }

MoveAvgLens == {2, 3}

(***************************************************************************)
(* feeder() and epoch_len()                                                *)
(***************************************************************************)

\* len(word_array) // config.batch_size, for batch_size > 0
feeder_batch_width(cfg, w) == Len(w) \div cfg.batch_size

\* word_array[lo : hi] for 0 <= lo: Python clamps hi to the length
PySlice(w, lo, hi) == [k \in 1..Max(0, Min(hi, Len(w)) - lo) |-> w[lo + k]]

\* faulty variant: the remainder tokens dropped at the front of the stream
TruncDropLeading(cfg, w) ==
    LET bw == feeder_batch_width(cfg, w)
    IN  PySlice(w, Len(w) - cfg.batch_size * bw, Len(w))

\* word_array[0 : config.batch_size*batch_width]
feeder_truncated(cfg, w) ==
    PySlice(w, 0, cfg.batch_size * feeder_batch_width(cfg, w))

\* np.reshape raises ValueError unless the sizes agree
np_reshape_ok(flat, rows, cols) == Len(flat) = rows * cols

\* faulty variant: the reshape in Fortran order, the first index varying fastest
ReshapeFortran(flat, rows, cols) ==
    [r \in 0..rows - 1 |-> [c \in 0..cols - 1 |-> flat[c * rows + r + 1]]]

\* np.reshape(flat, (rows, cols)): C order, the last index varies fastest
np_reshape(flat, rows, cols) ==
    [r \in 0..rows - 1 |-> [c \in 0..cols - 1 |-> flat[r * cols + c + 1]]]

\* faulty variant: range(batch_width - config.num_rnn_steps)
RangeOneMore(cfg, bw) == 0..(bw - cfg.num_rnn_steps - 1)

\* faulty variant: range(batch_width - config.num_rnn_steps + 1)
RangePastTarget(cfg, bw) == 0..(bw - cfg.num_rnn_steps)

\* range(batch_width - config.num_rnn_steps - 1), as a set
feeder_range(cfg, bw) == 0..(bw - cfg.num_rnn_steps - 2)

\* faulty variant: start columns drawn with replacement
WithReplacement(S) == [1..Cardinality(S) -> S]

\* the lists random.shuffle() can leave: every ordering of the elements of S
Shuffles(S) ==
    { p \in [1..Cardinality(S) -> S] : \A a, b \in 1..Cardinality(S) : a # b => p[a] # p[b] }

\* x = data[:, i : i+num_rnn_steps]; the slice is clamped to the row
feeder_x(d, cfg, bw, i) ==
    [r \in DOMAIN d |-> [k \in 1..Max(0, Min(i + cfg.num_rnn_steps, bw) - i) |-> d[r][i + k - 1]]]

\* faulty variant: the target taken one column late
TargetOneLate(d, cfg, i) == [r \in DOMAIN d |-> <<d[r][i + cfg.num_rnn_steps + 1]>>]

\* y = data[:, i+num_rnn_steps].reshape((-1, 1))
feeder_y(d, cfg, i) == [r \in DOMAIN d |-> <<d[r][i + cfg.num_rnn_steps]>>]

\* epoch_len(): batch_width - config.num_rnn_steps - 1
epoch_len(cfg, w) == feeder_batch_width(cfg, w) - cfg.num_rnn_steps - 1

(***************************************************************************)
(* The Train cell                                                          *)
(***************************************************************************)
summary_interval == 250
max_to_keep == 2

\* batch_loss of one sess.run: nce_loss draws its negative samples at random
Losses == {1, 2}

\* change of one h_init component in one MomentumOptimizer update, in quanta
Deltas == {0, 1}

Lanes(cfg) == 0..cfg.batch_size - 1

\* init_rnn_cell(): h_init has shape (batch_size, o_sz), zero_initializer
init_rnn_cell(cfg) == [r \in Lanes(cfg) |-> [j \in 1..RnnSize |-> 0]]

\* faulty variant: the state carried over from the window processed before
CarriedState(h, r) == IF rnn_last_output = <<>> THEN h[r] ELSE rnn_last_output

\* model(): s[0], the state lane r enters the first cell() application with
model_s0(h, r) == h[r]

\* The updates one train_op can apply to h_init, one amount per row.  The
\* gradient of the batch loss with respect to row r of h_init is a function of
\* lane r's window, target and row alone (the sampled negatives are shared by
\* the batch), so lanes that agree on these receive the same update.
Updates(cfg, h, t) ==
    { d \in [Lanes(cfg) -> Deltas] :
        \A r1, r2 \in Lanes(cfg) :
            (t.x[r1] = t.x[r2] /\ t.y[r1] = t.y[r2] /\ h[r1] = h[r2]) => d[r1] = d[r2] }

\* train_op: every trainable variable moves against its gradient
apply_update(h, d) == [r \in DOMAIN h |-> [j \in 1..RnnSize |-> h[r][j] - d[r]]]

\* faulty variant: the counter advanced twice by one update
StepByTwo(st) == st + 2

\* optimizer.minimize(.., global_step=step): the update increments global_step
minimize_global_step(st) == st + 1

\* the values sess.run can return for g.step, fetched in the run that
\* increments it without an ordering between the two
Fetches(st) == {st, minimize_global_step(st)}

\* move_avg_loss[step % move_avg_len] = batch_loss
buffer_write(buf, n, st, loss) == [buf EXCEPT ![(st % n) + 1] = loss]

\* the last n elements of a sequence
LastN(a, n) == IF Len(a) > n THEN SubSeq(a, Len(a) - n + 1, Len(a)) ELSE a

\* the record kept of a batch: the slot its loss went to, and the loss
Recorded(a, n, st, loss) == LastN(Append(a, [slot |-> st % n, loss |-> loss]), n)

RECURSIVE SumSeq(_)
SumSeq(a) == IF a = <<>> THEN 0 ELSE Head(a) + SumSeq(Tail(a))

\* np.zeros(move_avg_len)
np_zeros(n) == [k \in 1..n |-> 0]

\* faulty variant: the newest files are deleted first
KeepOldest(files) ==
    IF Len(files) > max_to_keep
    THEN SubSeq(files, 1, max_to_keep)
    ELSE files

\* tf.train.Saver(max_to_keep=2): the oldest files are deleted first
saver_keep(files) ==
    IF Len(files) > max_to_keep
    THEN SubSeq(files, Len(files) - max_to_keep + 1, Len(files))
    ELSE files

\* faulty variant: the file written from the freshly initialised variables
SaveInitial(tag, h, st) ==
    [tag |-> tag, h_init |-> [r \in DOMAIN h |-> [j \in 1..RnnSize |-> 0]], step |-> 0]

\* faulty variant: the file tagged with the global step instead of the epoch
SaveTaggedByStep(tag, h, st) == [tag |-> st, h_init |-> h, step |-> st]

\* g.saver.save(sess, logfile_name, global_step=e): the file written holds
\* the variables of the session and carries the tag
saver_save(tag, h, st) == [tag |-> tag, h_init |-> h, step |-> st]

\* the batches yielded so far by the running feeder() pass
Batch(d, cfg, bw, i) == [i |-> i, x |-> feeder_x(d, cfg, bw, i), y |-> feeder_y(d, cfg, i)]

Visited == { shuffle_index[k] : k \in 1..pos }

Yielded == { [x |-> Batch(data, config, batch_width, i).x,
              y |-> Batch(data, config, batch_width, i).y] : i \in Visited }

NoFeed == [i |-> -1, x |-> <<>>, y |-> <<>>]

InitRest ==
    /\ pc = "start"
    /\ e = 0
    /\ raised = "none"
    /\ total = 0
    /\ gen = "none"
    /\ batch_width = 0
    /\ data = <<>>
    /\ shuffle_index = <<>>
    /\ pos = 0
    /\ feed = NoFeed
    /\ h_init = <<>>
    /\ step = 0
    /\ checkpoints = <<>>
    /\ reported = [epoch |-> 0, sum |-> 0, over |-> move_avg_len]
    /\ summaries = 0
    /\ passes = <<>>

InitNoModel ==
    /\ s = <<>>
    /\ applied = <<>>
    /\ rnn_last_output = <<>>
    /\ batch_loss = -1
    /\ fetched_step = -1
    /\ recent = <<>>

InitNoRerun ==
    /\ train_run = 0
    /\ first_train = <<>>

InitNoPredict ==
    /\ restored = <<>>
    /\ argmax_ties = "first"
    /\ start = 0
    /\ input = <<>>
    /\ pred = -1
    /\ pred_i = 0
    /\ runs = 0
    /\ first_run = <<>>

InitNoCell ==
    /\ move_avg_len \in MoveAvgLens
    /\ move_avg_loss = np_zeros(move_avg_len)
    /\ cell_x = <<>>
    /\ cell_h_1 = <<>>
    /\ cell_params = <<>>
    /\ cell_h = <<>>
    /\ cell_calls = 0
    /\ InitNoModel
    /\ InitNoRerun
    /\ InitNoPredict

Init ==
    /\ \E run \in Runs(MaxTrainLen, MaxBatches) : word_array = run.w /\ config = run.cfg
    /\ InitNoCell
    /\ InitRest

\* g = MyGraph(config); sess.run(g.init)
StartTraining ==
    /\ pc = "start"
    /\ h_init' = init_rnn_cell(config)
    /\ step' = 0
    /\ pc' = "epochs"
    /\ UNCHANGED <<word_array, config, move_avg_len, e, raised, total, gen, batch_width,
                   data, shuffle_index, pos, feed, move_avg_loss, checkpoints, reported,
                   summaries, passes, cell_vars, model_vars, loop_vars,
                   predict_vars, rerun_vars>>

\* faulty variant: for e in range(config.epochs + 1)
BeginEpochOneMore ==
    /\ pc = "epochs"
    /\ e <= config.epochs
    /\ gen' = "created"
    /\ pos' = 0
    /\ IF config.batch_size = 0
       THEN /\ raised' = "ZeroDivisionError"
            /\ pc' = "error"
            /\ total' = total
       ELSE /\ raised' = raised
            /\ pc' = "iter"
            /\ total' = epoch_len(config, word_array)
    /\ UNCHANGED <<word_array, config, move_avg_len, e, batch_width, data, shuffle_index,
                   feed, h_init, step, move_avg_loss, checkpoints, reported, summaries,
                   passes, cell_vars, model_vars, loop_vars, predict_vars, rerun_vars>>

\* for e in range(config.epochs): tqdm_notebook(feeder(..), total=epoch_len(..), ..)
\* feeder() only creates the generator; epoch_len() divides by config.batch_size
BeginEpoch ==
    /\ pc = "epochs"
    /\ e < config.epochs
    /\ gen' = "created"
    /\ pos' = 0
    /\ IF config.batch_size = 0
       THEN /\ raised' = "ZeroDivisionError"
            /\ pc' = "error"
            /\ total' = total
       ELSE /\ raised' = raised
            /\ pc' = "iter"
            /\ total' = epoch_len(config, word_array)
    /\ UNCHANGED <<word_array, config, move_avg_len, e, batch_width, data, shuffle_index,
                   feed, h_init, step, move_avg_loss, checkpoints, reported, summaries,
                   passes, cell_vars, model_vars, loop_vars, predict_vars, rerun_vars>>

\* first next() on the generator: the body of feeder() up to its for loop
FeederStart ==
    /\ pc = "iter"
    /\ gen = "created"
    /\ LET bw == feeder_batch_width(config, word_array)
           flat == feeder_truncated(config, word_array)
       IN  /\ batch_width' = bw
           /\ IF np_reshape_ok(flat, config.batch_size, bw)
              THEN /\ data' = np_reshape(flat, config.batch_size, bw)
                   /\ shuffle_index' \in Shuffles(feeder_range(config, bw))
                   /\ gen' = "running"
                   /\ UNCHANGED <<pc, raised>>
              ELSE /\ raised' = "ValueError"
                   /\ pc' = "error"
                   /\ gen' = "exhausted"
                   /\ UNCHANGED <<data, shuffle_index>>
    /\ pos' = 0
    /\ UNCHANGED <<word_array, config, move_avg_len, e, total, feed, h_init, step,
                   move_avg_loss, checkpoints, reported, summaries, passes, cell_vars,
                   model_vars, loop_vars, predict_vars, rerun_vars>>

\* data[:, c] for a column c >= 0: numpy raises IndexError unless c < batch_width
\* (a slice data[:, lo:hi] is clamped instead and raises nothing)
np_index_ok(bw, c) == c <= bw - 1

\* for i in shuffle_index: ... yield (x, y)
FeederYield ==
    /\ pc = "iter"
    /\ gen = "running"
    /\ pos < Len(shuffle_index)
    /\ IF np_index_ok(batch_width, shuffle_index[pos + 1] + config.num_rnn_steps)
       THEN /\ feed' = Batch(data, config, batch_width, shuffle_index[pos + 1])
            /\ pos' = pos + 1
            /\ pc' = "body"
            /\ UNCHANGED <<raised, gen>>
       ELSE /\ raised' = "IndexError"
            /\ pc' = "error"
            /\ gen' = "exhausted"
            /\ UNCHANGED <<feed, pos>>
    /\ UNCHANGED <<word_array, config, move_avg_len, e, total, batch_width,
                   data, shuffle_index, h_init, step, move_avg_loss, checkpoints, reported,
                   summaries, passes, cell_vars, model_vars, loop_vars,
                   predict_vars, rerun_vars>>

\* the for loop of feeder() ends: StopIteration
FeederStop ==
    /\ pc = "iter"
    /\ gen = "running"
    /\ pos = Len(shuffle_index)
    /\ gen' = "exhausted"
    /\ passes' = Append(passes, [batches |-> Yielded,
                                 first |-> IF pos = 0 THEN -1 ELSE shuffle_index[1],
                                 w |-> word_array, cfg |-> config])
    /\ pc' = "epoch_end"
    /\ UNCHANGED <<word_array, config, move_avg_len, e, raised, total, batch_width, data,
                   shuffle_index, pos, feed, h_init, step, move_avg_loss, checkpoints,
                   reported, summaries, cell_vars, model_vars, loop_vars,
                   predict_vars, rerun_vars>>

\* [_, batch_loss, step] = sess.run([g.train_op, g.batch_loss, g.step], feed_dict=feed)
\* and the rest of the loop body.  g.step is fetched in the same run that
\* increments it, without an ordering between the two: the fetched value is the
\* counter before or after the increment.
TrainStep ==
    /\ pc = "body"
    /\ \E loss \in Losses, d \in Updates(config, h_init, feed), fetched \in Fetches(step) :
          /\ h_init' = apply_update(h_init, d)
          /\ step' = minimize_global_step(step)
          /\ batch_loss' = loss
          /\ fetched_step' = fetched
          /\ move_avg_loss' = buffer_write(move_avg_loss, move_avg_len, fetched, loss)
          /\ summaries' = IF fetched % summary_interval = 0
                          THEN summaries + 1
                          ELSE summaries
          /\ recent' = Recorded(recent, move_avg_len, fetched, loss)
    /\ pc' = "iter"
    /\ UNCHANGED <<word_array, config, move_avg_len, e, raised, total, gen, batch_width,
                   data, shuffle_index, pos, feed, checkpoints, reported, passes, cell_vars,
                   model_vars, predict_vars, rerun_vars>>

\* faulty variant: the checkpoint written only when the printed loss improved
EndEpochSavesBest ==
    /\ pc = "epoch_end"
    /\ reported' = [epoch |-> e + 1, sum |-> SumSeq(move_avg_loss), over |-> move_avg_len]
    /\ checkpoints' = IF e = 0 \/ SumSeq(move_avg_loss) < reported.sum
                      THEN saver_keep(Append(checkpoints, saver_save(e, h_init, step)))
                      ELSE checkpoints
    /\ e' = e + 1
    /\ pc' = "epochs"
    /\ UNCHANGED <<word_array, config, move_avg_len, raised, total, gen, batch_width, data,
                   shuffle_index, pos, feed, h_init, step, move_avg_loss, summaries, passes,
                   cell_vars, model_vars, loop_vars, predict_vars, rerun_vars>>

\* print('Epoch #{} Loss ..', np.mean(move_avg_loss)); g.saver.save(sess, .., global_step=e)
EndEpoch ==
    /\ pc = "epoch_end"
    /\ reported' = [epoch |-> e + 1, sum |-> SumSeq(move_avg_loss), over |-> move_avg_len]
    /\ checkpoints' = saver_keep(Append(checkpoints, saver_save(e, h_init, step)))
    /\ e' = e + 1
    /\ pc' = "epochs"
    /\ UNCHANGED <<word_array, config, move_avg_len, raised, total, gen, batch_width, data,
                   shuffle_index, pos, feed, h_init, step, move_avg_loss, summaries, passes,
                   cell_vars, model_vars, loop_vars, predict_vars, rerun_vars>>

\* the epoch loop is over: embed_vis(writer, g); writer.close()
Finish ==
    /\ pc = "epochs"
    /\ e = config.epochs
    /\ pc' = "done"
    /\ UNCHANGED <<word_array, config, move_avg_len, e, raised, total, gen, batch_width,
                   data, shuffle_index, pos, feed, h_init, step, move_avg_loss, checkpoints,
                   reported, summaries, passes, cell_vars, model_vars, loop_vars,
                   predict_vars, rerun_vars>>

\* the loop over feeder() alone: a batch is taken and the next one asked for
DrainBatch ==
    /\ pc = "body"
    /\ pc' = "iter"
    /\ UNCHANGED <<word_array, config, move_avg_len, e, raised, total, gen, batch_width,
                   data, shuffle_index, pos, feed, h_init, step, move_avg_loss, checkpoints,
                   reported, summaries, passes, cell_vars, model_vars, loop_vars,
                   predict_vars, rerun_vars>>

Next ==
    \/ StartTraining
    \/ BeginEpoch
    \/ FeederStart
    \/ FeederYield
    \/ FeederStop
    \/ TrainStep
    \/ EndEpoch
    \/ Finish

Spec == Init /\ [][Next]_vars

(***************************************************************************)
(* feeder() on its own: the same loop over every stream and configuration  *)
(* within the bounds, the batches drained without a training step.         *)
(***************************************************************************)
InitFeeder ==
    /\ \E run \in Runs(MaxLen, MaxPass) : word_array = run.w /\ config = run.cfg
    /\ InitNoCell
    /\ InitRest

NextFeeder ==
    \/ StartTraining
    \/ BeginEpoch
    \/ FeederStart
    \/ FeederYield
    \/ FeederStop
    \/ DrainBatch
    \/ EndEpoch
    \/ Finish

SpecFeeder == InitFeeder /\ [][NextFeeder]_vars

(***************************************************************************)
(* The Train cell statement by statement: the body of the batch loop is    *)
(* the sess.run, which returns once the update has been applied, followed  *)
(* by the statements that record its results.  The runs followed have one  *)
(* lane, a stream of distinct tokens, up to MaxEpochs epochs and at most   *)
(* MaxRunBatches batches in all.                                           *)
(***************************************************************************)
LoopConfigs == [batch_size : 0..1, num_rnn_steps : 1..MaxSteps, epochs : 1..MaxEpochs]

LoopStreams == { w \in Streams : \A k \in 1..Len(w) : w[k] = k - 1 }

LoopRuns ==
    { run \in [w : LoopStreams, cfg : LoopConfigs] :
        /\ Len(run.w) <= MaxTrainLen
        /\ run.cfg.batch_size > 0 =>
              /\ epoch_len(run.cfg, run.w) <= MaxBatches
              /\ run.cfg.epochs * epoch_len(run.cfg, run.w) <= MaxRunBatches }

InitLoop ==
    /\ \E run \in LoopRuns : word_array = run.w /\ config = run.cfg
    /\ InitNoCell
    /\ InitRest

\* faulty variant: the fetches handed back before the update is applied
SessRunReturnsEarly ==
    /\ pc = "body"
    /\ \E loss \in Losses, fetched \in Fetches(step) :
          /\ batch_loss' = loss
          /\ fetched_step' = fetched
    /\ pc' = "record"
    /\ UNCHANGED <<word_array, config, move_avg_len, e, raised, total, gen, batch_width,
                   data, shuffle_index, pos, feed, h_init, step, move_avg_loss, checkpoints,
                   reported, summaries, passes, cell_vars, model_vars, recent,
                   predict_vars, rerun_vars>>

\* [_, batch_loss, step] = sess.run([g.train_op, g.batch_loss, g.step], feed_dict=feed)
SessRun ==
    /\ pc = "body"
    /\ \E loss \in Losses, d \in Updates(config, h_init, feed), fetched \in Fetches(step) :
          /\ h_init' = apply_update(h_init, d)
          /\ step' = minimize_global_step(step)
          /\ batch_loss' = loss
          /\ fetched_step' = fetched
    /\ pc' = "record"
    /\ UNCHANGED <<word_array, config, move_avg_len, e, raised, total, gen, batch_width,
                   data, shuffle_index, pos, feed, move_avg_loss, checkpoints, reported,
                   summaries, passes, cell_vars, model_vars, recent, predict_vars, rerun_vars>>

\* faulty variant: the run that evaluates the summaries fetches the train op
\* too, and the variables move once more
RecordLossRunsTrainOp ==
    /\ pc = "record"
    /\ move_avg_loss' = buffer_write(move_avg_loss, move_avg_len, fetched_step, batch_loss)
    /\ summaries' = IF fetched_step % summary_interval = 0
                    THEN summaries + 1
                    ELSE summaries
    /\ h_init' = IF fetched_step % summary_interval = 0
                 THEN apply_update(h_init, [r \in Lanes(config) |-> 1])
                 ELSE h_init
    /\ recent' = Recorded(recent, move_avg_len, fetched_step, batch_loss)
    /\ pc' = "iter"
    /\ UNCHANGED <<word_array, config, move_avg_len, e, raised, total, gen, batch_width,
                   data, shuffle_index, pos, feed, step, checkpoints, reported,
                   passes, cell_vars, model_vars, batch_loss, fetched_step,
                   predict_vars, rerun_vars>>

\* move_avg_loss[step % move_avg_len] = batch_loss
\* if (step % summary_interval) == 0: sess.run([g.assign_embed_in, g.assign_embed_out])
\* and writer.add_summary(sess.run(g.summ, ..), step).  The two assign ops copy
\* rows of the embedding and output weights into the top_n_embedding variables
\* kept for TensorBoard, which no other op reads; g.summ reads the variables.
RecordLoss ==
    /\ pc = "record"
    /\ move_avg_loss' = buffer_write(move_avg_loss, move_avg_len, fetched_step, batch_loss)
    /\ summaries' = IF fetched_step % summary_interval = 0
                    THEN summaries + 1
                    ELSE summaries
    /\ recent' = Recorded(recent, move_avg_len, fetched_step, batch_loss)
    /\ pc' = "iter"
    /\ UNCHANGED <<word_array, config, move_avg_len, e, raised, total, gen, batch_width,
                   data, shuffle_index, pos, feed, h_init, step, checkpoints, reported,
                   passes, cell_vars, model_vars, batch_loss, fetched_step,
                   predict_vars, rerun_vars>>

NextLoop ==
    \/ StartTraining
    \/ BeginEpoch
    \/ FeederStart
    \/ FeederYield
    \/ FeederStop
    \/ SessRun
    \/ RecordLoss
    \/ EndEpoch
    \/ Finish

SpecLoop == InitLoop /\ [][NextLoop]_vars

(***************************************************************************)
(* The Train cell on a run that diverges: the loss of a batch can overflow *)
(* to float32 infinity.  An infinite loss is a number larger than every    *)
(* sum of finite losses the buffer can hold, so that a sum or mean with an *)
(* infinite term is infinite as well.                                      *)
(***************************************************************************)
NonFinite == 1000

IsFinite(a) == a < NonFinite

\* the warnings a run has reported so far: the Train cell prints the epoch
\* line and has no statement that tests the loss or issues a warning
Warnings == {}

InitDiverge ==
    /\ InitLoop
    /\ config.epochs <= epochs

\* the sess.run of a batch whose loss overflows: the fetches are returned as
\* for any other batch
SessRunOverflow ==
    /\ pc = "body"
    /\ \E d \in Updates(config, h_init, feed), fetched \in Fetches(step) :
          /\ h_init' = apply_update(h_init, d)
          /\ step' = minimize_global_step(step)
          /\ batch_loss' = NonFinite
          /\ fetched_step' = fetched
    /\ pc' = "record"
    /\ UNCHANGED <<word_array, config, move_avg_len, e, raised, total, gen, batch_width,
                   data, shuffle_index, pos, feed, move_avg_loss, checkpoints, reported,
                   summaries, passes, cell_vars, model_vars, recent, predict_vars,
                   rerun_vars>>

NextDiverge ==
    \/ NextLoop
    \/ SessRunOverflow

SpecDiverge == InitDiverge /\ [][NextDiverge]_vars

(***************************************************************************)
(* The Train cell when writing a checkpoint can fail (the disk is full,    *)
(* the log directory is missing or not writable).  g.saver.save() then     *)
(* raises, and nothing in the cell catches it: the exception leaves the    *)
(* two loops and the two with blocks, and leaving "with tf.Session() as    *)
(* sess" closes the session, which releases the values of its variables.   *)
(***************************************************************************)
InitSaveFail ==
    /\ InitLoop
    /\ config.epochs <= epochs

\* print(..); g.saver.save(..) raises
EndEpochSaveFails ==
    /\ pc = "epoch_end"
    /\ reported' = [epoch |-> e + 1, sum |-> SumSeq(move_avg_loss), over |-> move_avg_len]
    /\ raised' = "OpError"
    /\ pc' = "error"
    /\ h_init' = <<>>
    /\ step' = 0
    /\ UNCHANGED <<word_array, config, move_avg_len, e, total, gen, batch_width, data,
                   shuffle_index, pos, feed, move_avg_loss, checkpoints, summaries, passes,
                   cell_vars, model_vars, loop_vars, predict_vars, rerun_vars>>

NextSaveFail ==
    \/ NextLoop
    \/ EndEpochSaveFails

SpecSaveFail == InitSaveFail /\ [][NextSaveFail]_vars

(***************************************************************************)
(* The Train cell executed a second time, on the same word_array and       *)
(* config: the buffer, the graph, the session and the saver are created    *)
(* anew, so the variables are initialised again and the new saver starts   *)
(* without files of its own.  What the first execution went through is     *)
(* kept in first_train.                                                    *)
(***************************************************************************)

\* the course of an execution: the batches of each pass of feeder(), the
\* global_step reached, the epochs gone through, the tags of the files the
\* saver holds, and the exception that ended it
TrainControl ==
    [batches |-> [k \in 1..Len(passes) |-> Cardinality(passes[k].batches)],
     step |-> step,
     written |-> e,
     tags |-> [j \in 1..Len(checkpoints) |-> checkpoints[j].tag],
     raised |-> raised]

InitRerun ==
    /\ InitLoop
    /\ config.epochs <= epochs

TrainAgain ==
    /\ pc \in {"done", "error"}
    /\ train_run = 0
    /\ train_run' = 1
    /\ first_train' = [control |-> TrainControl, loss |-> batch_loss]
    /\ move_avg_loss' = np_zeros(move_avg_len)
    /\ pc' = "start"
    /\ e' = 0
    /\ raised' = "none"
    /\ total' = 0
    /\ gen' = "none"
    /\ batch_width' = 0
    /\ data' = <<>>
    /\ shuffle_index' = <<>>
    /\ pos' = 0
    /\ feed' = NoFeed
    /\ h_init' = <<>>
    /\ step' = 0
    /\ checkpoints' = <<>>
    /\ reported' = [epoch |-> 0, sum |-> 0, over |-> move_avg_len]
    /\ summaries' = 0
    /\ passes' = <<>>
    /\ batch_loss' = -1
    /\ fetched_step' = -1
    /\ recent' = <<>>
    /\ UNCHANGED <<word_array, config, move_avg_len, cell_vars, model_vars, predict_vars>>

NextRerun ==
    \/ NextLoop
    \/ TrainAgain

SpecRerun == InitRerun /\ [][NextRerun]_vars

(***************************************************************************)
(* The Train cell run to its end.  The cell is one thread of a Python      *)
(* interpreter and nothing in it waits: a statement that can be executed   *)
(* is executed.                                                            *)
(***************************************************************************)
SpecTerminate == InitLoop /\ [][NextLoop]_vars /\ WF_vars(NextLoop)

(***************************************************************************)
(* The first statements of the Predict cell after a training run of the    *)
(* hand-coded GRU: config.batch_size = 1, a new MyGraph(config), and       *)
(* g.saver.restore(sess, last_saved).  The new graph's h_init has shape    *)
(* (1, rnn_size); restore assigns each saved tensor to the variable of the *)
(* same name and fails with InvalidArgumentError when the shapes differ.   *)
(***************************************************************************)

\* the shape of h_init, as the set of its rows
Shape(h) == DOMAIN h

\* the Assign of a restore: the saved tensor must have the variable's shape
saver_restore_ok(file, cfg) == Shape(file.h_init) = Shape(init_rnn_cell(cfg))

\* config.batch_size = 1; g = MyGraph(config); g.saver.restore(sess, last_saved)
PredictRestore ==
    /\ pc = "done"
    /\ checkpoints # <<>>
    /\ config' = [config EXCEPT !.batch_size = 1]
    /\ LET last_saved == checkpoints[Len(checkpoints)]
       IN  IF saver_restore_ok(last_saved, config')
           THEN /\ h_init' = last_saved.h_init
                /\ step' = last_saved.step
                /\ pc' = "restored"
                /\ raised' = raised
           ELSE /\ h_init' = <<>>
                /\ step' = 0
                /\ pc' = "error"
                /\ raised' = "InvalidArgumentError"
    /\ UNCHANGED <<word_array, move_avg_len, e, total, gen, batch_width, data,
                   shuffle_index, pos, feed, move_avg_loss, checkpoints, reported,
                   summaries, passes, cell_vars, model_vars, loop_vars, predict_vars,
                   rerun_vars>>

NextRestore ==
    \/ Next
    \/ PredictRestore

SpecRestore == Init /\ [][NextRestore]_vars

(***************************************************************************)
(* cell(): the hand-coded GRU                                              *)
(*                                                                         *)
(* TensorFlow computes in float32: every product is rounded to the nearest *)
(* representable number.  The model keeps that at a coarser precision: a   *)
(* number is an integer count of quanta of 1/Q, and a product is rounded   *)
(* to the nearest quantum, ties to even.                                   *)
(***************************************************************************)

\* n / d rounded to the nearest integer, ties to even (d > 0)
RoundDiv(n, d) ==
    LET q == n \div d
        r == n % d
    IN  IF 2 * r < d THEN q
        ELSE IF 2 * r > d THEN q + 1
        ELSE IF q % 2 = 0 THEN q ELSE q + 1

\* a * b of two numbers given in quanta
Mul(a, b) == RoundDiv(a * b, Q)

Clamp(a, lo, hi) == IF a < lo THEN lo ELSE IF a > hi THEN hi ELSE a

\* tf.sigmoid: increasing, 1/2 at 0, and in finite precision exactly 0 and 1
\* for large arguments; between them the model takes the chord 1/2 + a/4
tf_sigmoid(a) == Clamp(RoundDiv(2 * Q + a, 4), 0, Q)

\* tf.tanh: increasing, odd, exactly -1 and 1 for large arguments; between
\* them the model takes the tangent at 0
tf_tanh(a) == Clamp(a, -Q, Q)

RECURSIVE Dot(_, _, _, _)
Dot(v, W, j, i) == IF i = 0 THEN 0 ELSE Dot(v, W, j, i - 1) + Mul(v[i], W[i][j])

\* tf.matmul(v, W) + b for one row v: a vector of RnnSize components
Affine(v, W, b) == [j \in 1..RnnSize |-> Dot(v, W, j, Len(v)) + b[j]]

\* r = tf.sigmoid(tf.matmul(xh, Wr) + br)
cell_r(x, h_1, P) ==
    LET pre == Affine(x \o h_1, P.Wr, P.br)
    IN  [j \in 1..RnnSize |-> tf_sigmoid(pre[j])]

\* z = tf.sigmoid(tf.matmul(xh, Wz) + bz)
cell_z(x, h_1, P) ==
    LET pre == Affine(x \o h_1, P.Wz, P.bz)
    IN  [j \in 1..RnnSize |-> tf_sigmoid(pre[j])]

\* h_tild = tf.tanh(tf.matmul(xrh_1, W) + b), with rh_1 = r * h_1
cell_h_tild(x, h_1, P) ==
    LET r == cell_r(x, h_1, P)
        rh_1 == [j \in 1..RnnSize |-> Mul(r[j], h_1[j])]
        pre == Affine(x \o rh_1, P.W, P.b)
    IN  [j \in 1..RnnSize |-> tf_tanh(pre[j])]

\* faulty variant: the gate applied the other way round: (1-z)*h_1 + z*h_tild
BlendSwapped(z, h_1, h_tild) ==
    [j \in 1..RnnSize |-> Mul(Q - z[j], h_1[j]) + Mul(z[j], h_tild[j])]

\* h = z*h_1 + (1-z)*h_tild
cell_blend(z, h_1, h_tild) ==
    [j \in 1..RnnSize |-> Mul(z[j], h_1[j]) + Mul(Q - z[j], h_tild[j])]

cell(x, h_1, P) == cell_blend(cell_z(x, h_1, P), h_1, cell_h_tild(x, h_1, P))

\* The inputs tried.  Embedded tokens and states are vectors over a few
\* values; each weight matrix has one value in all its entries and each bias
\* vector one value in all its components (br and bz start at 1, b at 0).
XVals == {-Q, Q}
HVals == {-Q, -1, 0, 1, Q}
Weights == {-Q, 1, Q}
GateBiases == {-2 * Q, 0, Q, 2 * Q}

Matrix(w) == [i \in 1..(EmbedSize + RnnSize) |-> [j \in 1..RnnSize |-> w]]
Vector(v) == [j \in 1..RnnSize |-> v]

CellParams ==
    { [Wr |-> Matrix(wr), Wz |-> Matrix(wz), W |-> Matrix(w),
       br |-> Vector(Q), bz |-> Vector(bz), b |-> Vector(0)] :
         wr \in Weights, wz \in Weights, w \in Weights, bz \in GateBiases }

InitCell ==
    /\ word_array = <<>>
    /\ config = [batch_size |-> 1, num_rnn_steps |-> MaxCellSteps, epochs |-> epochs]
    /\ move_avg_len = 0
    /\ move_avg_loss = <<>>
    /\ InitRest
    /\ cell_x \in [1..EmbedSize -> XVals]
    /\ cell_h_1 \in [1..RnnSize -> HVals]
    /\ cell_params \in CellParams
    /\ cell_h = <<>>
    /\ cell_calls = 0
    /\ InitNoModel
    /\ InitNoRerun
    /\ InitNoPredict

\* one application: h = cell(x, h_1)
CellCall ==
    /\ cell_h = <<>>
    /\ cell_params # <<>>
    /\ cell_h' = cell(cell_x, cell_h_1, cell_params)
    /\ cell_calls' = cell_calls + 1
    /\ UNCHANGED <<cell_x, cell_h_1, cell_params, train_vars, model_vars, loop_vars,
                   predict_vars, rerun_vars>>

\* model(): s_1 = s[-1]; the next application gets the state just returned
\* and the next column of the window
CellThread ==
    /\ cell_h # <<>>
    /\ cell_calls < MaxCellSteps
    /\ cell_h_1' = cell_h
    /\ cell_x' \in [1..EmbedSize -> XVals]
    /\ cell_h' = <<>>
    /\ UNCHANGED <<cell_params, cell_calls, train_vars, model_vars, loop_vars,
                   predict_vars, rerun_vars>>

NextCell ==
    \/ CellCall
    \/ CellThread

SpecCell == InitCell /\ [][NextCell]_vars

(***************************************************************************)
(* model(): the recurrence unrolled over one window, for one lane.  Every  *)
(* sess.run of the train op evaluates the graph on the window fed to it:   *)
(* the list s starts from h_init, one cell() application is appended for   *)
(* each column, the last element goes to the hidden layer, and the train   *)
(* op then moves h_init.                                                   *)
(***************************************************************************)

\* the tokens a fed window is made of
Tokens == {0, 1}

\* tf.nn.embedding_lookup(embed_w, x): the row of embed_w for one token
embedding_lookup(tok) == [j \in 1..EmbedSize |-> IF tok % 2 = 0 THEN -Q ELSE Q]

\* embed_out[:, i, :] for one lane
embed_out(window, i) == embedding_lookup(window[i + 1])

\* faulty variant: the loop stops one column early
RangeOneLess(cfg) == 0..(cfg.num_rnn_steps - 2)

\* range(config.num_rnn_steps)
model_range(cfg) == 0..(cfg.num_rnn_steps - 1)

\* the windows fed: one lane, any tokens
Windows(cfg) ==
    { [i |-> 0, x |-> [r \in Lanes(cfg) |-> w], y |-> [r \in Lanes(cfg) |-> <<0>>]] :
        w \in [1..cfg.num_rnn_steps -> Tokens] }

InitModel ==
    /\ word_array = <<>>
    /\ config \in [batch_size : {1}, num_rnn_steps : 1..MaxCellSteps, epochs : {epochs}]
    /\ move_avg_len = 0
    /\ move_avg_loss = <<>>
    /\ pc = "feed"
    /\ e = 0
    /\ raised = "none"
    /\ total = 0
    /\ gen = "none"
    /\ batch_width = 0
    /\ data = <<>>
    /\ shuffle_index = <<>>
    /\ pos = 0
    /\ feed = NoFeed
    /\ h_init = init_rnn_cell(config)
    /\ step = 0
    /\ checkpoints = <<>>
    /\ reported = [epoch |-> 0, sum |-> 0, over |-> 0]
    /\ summaries = 0
    /\ passes = <<>>
    /\ cell_x = <<>>
    /\ cell_h_1 = <<>>
    /\ cell_params \in CellParams
    /\ cell_h = <<>>
    /\ cell_calls = 0
    /\ InitNoModel
    /\ InitNoRerun
    /\ InitNoPredict

\* a window is fed and the graph starts to run:
\* s = [init_rnn_cell(embed_out[:, 0, :], config.rnn_size, config.batch_size)]
ModelBegin ==
    /\ pc = "feed"
    /\ step < MaxRuns
    /\ feed' \in Windows(config)
    /\ s' = <<model_s0(h_init, 0)>>
    /\ applied' = <<>>
    /\ pc' = "unroll"
    /\ UNCHANGED <<word_array, config, move_avg_len, e, raised, total, gen, batch_width,
                   data, shuffle_index, pos, h_init, step, move_avg_loss, checkpoints,
                   reported, summaries, passes, cell_vars, rnn_last_output, loop_vars,
                   predict_vars, rerun_vars>>

\* one turn of the loop: s_1 = s[-1]; s.append(cell(embed_out[:, i, :], s_1))
ModelCell ==
    /\ pc = "unroll"
    /\ (Len(s) - 1) \in model_range(config)
    /\ LET i == Len(s) - 1
           s_1 == s[Len(s)]
           x == embed_out(feed.x[0], i)
           h == cell(x, s_1, cell_params)
       IN  /\ cell_x' = x
           /\ cell_h_1' = s_1
           /\ cell_h' = h
           /\ s' = Append(s, h)
           /\ applied' = Append(applied, [i |-> i, x |-> x, h_1 |-> s_1, h |-> h])
    /\ cell_calls' = cell_calls + 1
    /\ UNCHANGED <<train_vars, cell_params, rnn_last_output, loop_vars,
                   predict_vars, rerun_vars>>

\* the loop is over: rnn_last_output = s[-1]
ModelHidden ==
    /\ pc = "unroll"
    /\ (Len(s) - 1) \notin model_range(config)
    /\ rnn_last_output' = s[Len(s)]
    /\ pc' = "minimize"
    /\ UNCHANGED <<word_array, config, move_avg_len, e, raised, total, gen, batch_width,
                   data, shuffle_index, pos, feed, h_init, step, move_avg_loss, checkpoints,
                   reported, summaries, passes, cell_vars, s, applied, loop_vars,
                   predict_vars, rerun_vars>>

\* train_op: h_init moves against its gradient and global_step is incremented
ModelMinimize ==
    /\ pc = "minimize"
    /\ \E d \in Updates(config, h_init, feed) : h_init' = apply_update(h_init, d)
    /\ step' = minimize_global_step(step)
    /\ pc' = "feed"
    /\ UNCHANGED <<word_array, config, move_avg_len, e, raised, total, gen, batch_width,
                   data, shuffle_index, pos, feed, move_avg_loss, checkpoints, reported,
                   summaries, passes, cell_vars, model_vars, loop_vars,
                   predict_vars, rerun_vars>>

NextModel ==
    \/ ModelBegin
    \/ ModelCell
    \/ ModelHidden
    \/ ModelMinimize

SpecModel == InitModel /\ [][NextModel]_vars

(***************************************************************************)
(* The Predict cell (the LSTM notebook): a graph with one lane is built,   *)
(* the variables of the last checkpoint are restored into it, and the seed *)
(* is extended by one predicted token per iteration.                       *)
(*                                                                         *)
(* tf.nn.dynamic_rnn and BasicLSTMCell are library code.  What the cell    *)
(* relies on is that the recurrent layer is a gated recurrence threaded    *)
(* over the window from the zero state; the model takes cell() for it.     *)
(***************************************************************************)

\* for i in range(250)
pred_iterations == 250

\* pred_length = 200: assigned in the Predict cell and not used by it
pred_length == 200

Vocab == 0..(vocab_size - 1)

\* tf.nn.dynamic_rnn(rnn_cell, embed_out, dtype=tf.float32): the recurrence
\* from the zero state over the first k columns of the window.  The state
\* before column k is bound as h_1, so that it is computed once.
RECURSIVE rnn_out(_, _, _)
rnn_out(window, P, k) ==
    IF k = 0
    THEN Vector(0)
    ELSE CHOOSE h \in { cell(embedding_lookup(window[k]), h_1, P.rnn) :
                           h_1 \in {rnn_out(window, P, k - 1)} } : TRUE

\* hid_out = tf.nn.tanh(tf.matmul(rnn_last_output, hid_w) + hid_b)
hid_out(window, P) ==
    LET rnn_last == rnn_out(window, P, Len(window))
        pre == Affine(rnn_last, P.hid_w, P.hid_b)
    IN  [j \in 1..RnnSize |-> tf_tanh(pre[j])]

\* tf.matmul(hid_out, w, transpose_b=True) + b: the score of vocabulary entry v
score(hid, P, v) == Dot(hid, [j \in 1..RnnSize |-> <<P.w[v]>>], 1, RnnSize) + P.b[v]

\* tf.argmax(.., axis=1) over the entries from v on, best being the index
\* kept so far: an index of the largest score; which one among equal scores
\* is left to the kernel, and is the same on every call
RECURSIVE argmax(_, _, _, _, _)
argmax(hid, P, ties, v, best) ==
    IF v = vocab_size
    THEN best
    ELSE LET sv == score(hid, P, v)
             sb == score(hid, P, best)
         IN  argmax(hid, P, ties, v + 1,
                    IF sv > sb \/ (sv = sb /\ ties = "last") THEN v ELSE best)

\* faulty variant: the prediction shifted by the number of executions so far
YHatByRun(window, P, ties) ==
    CHOOSE v \in { (argmax(hid, P, ties, 1, 0) + runs) % vocab_size :
                      hid \in {hid_out(window, P)} } : TRUE

\* y_hat = tf.argmax(tf.matmul(hid_out, w, transpose_b=True) + b, axis=1)
y_hat(window, P, ties) ==
    CHOOSE v \in { argmax(hid, P, ties, 1, 0) : hid \in {hid_out(window, P)} } : TRUE

\* faulty variant: the window is always the seed
WindowFromSeed(inp, k, cfg) == PySlice(inp, 0, cfg.num_rnn_steps)

\* input[i:(i+config.num_rnn_steps)]
predict_window(inp, k, cfg) == PySlice(inp, k, k + cfg.num_rnn_steps)

\* the checkpoints tried: a recurrent layer, the hidden layer with unit
\* weights, and an output layer whose weights and biases vary with the entry
OutputLayers ==
    { [w |-> [v \in Vocab |-> (((v * a) % 3) - 1) * Q], b |-> [v \in Vocab |-> (v + a) % 2]] :
        a \in 1..2 }

Checkpoints ==
    { [rnn |-> R, hid_w |-> Matrix(Q), hid_b |-> Vector(0), w |-> out.w, b |-> out.b] :
        R \in { c \in CellParams : c.Wr = c.W /\ c.Wz = c.W /\ c.bz = Vector(0) },
        out \in OutputLayers }

\* the start positions tried: seeds from the front of the document and seeds
\* that run over its end
Starts == 0..MaxSteps

\* the documents tried: the longest stream of distinct tokens, and one that
\* has just the tokens of the widest seed
Documents == { w \in LoopStreams : Len(w) \in {MaxSteps, MaxLen} }

InitPredict ==
    /\ word_array \in Documents
    /\ config \in [batch_size : {MaxRows}, num_rnn_steps : 1..MaxSteps, epochs : {epochs}]
    /\ move_avg_len = 0
    /\ move_avg_loss = <<>>
    /\ pc = "predict"
    /\ e = 0
    /\ raised = "none"
    /\ total = 0
    /\ gen = "none"
    /\ batch_width = 0
    /\ data = <<>>
    /\ shuffle_index = <<>>
    /\ pos = 0
    /\ feed = NoFeed
    /\ h_init = <<>>
    /\ step = 0
    /\ checkpoints = <<>>
    /\ reported = [epoch |-> 0, sum |-> 0, over |-> 0]
    /\ summaries = 0
    /\ passes = <<>>
    /\ cell_x = <<>>
    /\ cell_h_1 = <<>>
    /\ cell_params = <<>>
    /\ cell_h = <<>>
    /\ cell_calls = 0
    /\ InitNoModel
    /\ InitNoRerun
    /\ restored \in Checkpoints
    /\ argmax_ties \in {"first", "last"}
    /\ start \in Starts
    /\ input = <<>>
    /\ pred = -1
    /\ pred_i = 0
    /\ runs = 0
    /\ first_run = <<>>

\* config.batch_size = 1; input = word_array[start:(start+config.num_rnn_steps)]
\* g = MyGraph(config); g.saver.restore(sess, last_saved)
PredictStart ==
    /\ pc = "predict"
    /\ runs < 2
    /\ config' = [config EXCEPT !.batch_size = 1]
    /\ input' = PySlice(word_array, start, start + config.num_rnn_steps)
    /\ pred_i' = 0
    /\ pc' = "predict_loop"
    /\ UNCHANGED <<word_array, move_avg_len, e, raised, total, gen, batch_width, data,
                   shuffle_index, pos, feed, h_init, step, move_avg_loss, checkpoints,
                   reported, summaries, passes, cell_vars, model_vars, loop_vars,
                   restored, argmax_ties, start, pred, runs, first_run, rerun_vars>>

\* one turn of the loop: the window is reshaped to one row and fed to g.x, of
\* shape (1, num_rnn_steps); [pred] = sess.run([g.y_hat], ..);
\* input = np.append(input, [pred])
PredictStep ==
    /\ pc = "predict_loop"
    /\ pred_i < pred_iterations
    /\ LET window == predict_window(input, pred_i, config)
       IN  IF Len(window) = config.num_rnn_steps
           THEN /\ feed' = [i |-> pred_i, x |-> [r \in Lanes(config) |-> window], y |-> <<>>]
                /\ pred' = y_hat(window, restored, argmax_ties)
                /\ input' = Append(input, pred')
                /\ pred_i' = pred_i + 1
                /\ UNCHANGED <<pc, raised>>
           ELSE /\ raised' = "ValueError"
                /\ pc' = "error"
                /\ UNCHANGED <<feed, pred, input, pred_i>>
    /\ UNCHANGED <<word_array, config, move_avg_len, e, total, gen, batch_width, data,
                   shuffle_index, pos, h_init, step, move_avg_loss, checkpoints, reported,
                   summaries, passes, cell_vars, model_vars, loop_vars,
                   restored, argmax_ties, start, runs, first_run, rerun_vars>>

\* the loop is over and the cell has run; it can be executed again
PredictEnd ==
    /\ pc = "predict_loop"
    /\ pred_i = pred_iterations
    /\ runs' = runs + 1
    /\ first_run' = IF runs = 0 THEN input ELSE first_run
    /\ pc' = "predict"
    /\ UNCHANGED <<word_array, config, move_avg_len, e, raised, total, gen, batch_width,
                   data, shuffle_index, pos, feed, h_init, step, move_avg_loss, checkpoints,
                   reported, summaries, passes, cell_vars, model_vars, loop_vars,
                   restored, argmax_ties, start, input, pred, pred_i, rerun_vars>>

NextPredict ==
    \/ PredictStart
    \/ PredictStep
    \/ PredictEnd

SpecPredict == InitPredict /\ [][NextPredict]_vars

(***************************************************************************)
(* The components side by side: a behaviour is a training run followed     *)
(* statement by statement, or a sequence of runs of the graph with the     *)
(* forward pass unrolled, or two executions of the Predict cell.  The       *)
(* training runs have the notebook's two epochs at most, the seeds are     *)
(* taken from the front of the document.                                   *)
(***************************************************************************)
InitComponents ==
    \/ InitLoop /\ config.epochs <= epochs
    \/ InitModel
    \/ InitPredict /\ start = 0

NextComponents ==
    \/ NextLoop
    \/ NextModel
    \/ NextPredict

SpecComponents == InitComponents /\ [][NextComponents]_vars

(***************************************************************************)
(* Properties of feeder() and epoch_len()                                  *)
(***************************************************************************)
row_width == Len(word_array) \div config.batch_size
num_steps == config.num_rnn_steps
FeederRan == config.batch_size >= 1 /\ gen \in {"running", "exhausted"}

\* C1: for every stream and every num_rows, num_steps, a full pass of feeder()
\* yields exactly row_width - num_steps - 1 batches and epoch_len() returns
\* that same number.
C1_PassLength ==
    (pc = "epoch_end") => (pos = row_width - num_steps - 1 /\ total = pos)

\* C2: the start columns of the batches of a pass are distinct, all lie in
\* 0 .. row_width - num_steps - 2, and a completed pass has used every one
\* of them.
C2_Permutation ==
    FeederRan =>
        /\ \A k \in 1..pos : shuffle_index[k] \in 0..(row_width - num_steps - 2)
        /\ \A a, b \in 1..pos : a # b => shuffle_index[a] # shuffle_index[b]
        /\ (gen = "exhausted" => Visited = 0..(row_width - num_steps - 2))

C2_Witness ==
    /\ gen = "exhausted"
    /\ pos >= 3
    /\ shuffle_index[1] > shuffle_index[2]

\* C3: a completed pass has visited every valid start column, a start column
\* i being valid when i + num_steps <= row_width - 1.
C3_AllValidVisited ==
    (FeederRan /\ gen = "exhausted") =>
        Visited = { i \in 0..(row_width - 1) : i + num_steps <= row_width - 1 }

\* C4: in the batch with start column i, lane r's input is
\* token_stream[r*row_width + i : r*row_width + i + num_steps] and its target
\* is token_stream[r*row_width + i + num_steps], both inside lane r.
C4_WindowAndTarget ==
    (pc = "body") =>
        /\ feed.i >= 0
        /\ feed.i + num_steps <= row_width - 1
        /\ DOMAIN feed.x = 0..(config.batch_size - 1)
        /\ \A r \in 0..(config.batch_size - 1) :
              /\ feed.x[r] = [k \in 1..num_steps |-> word_array[r * row_width + feed.i + k]]
              /\ feed.y[r] = <<word_array[r * row_width + feed.i + num_steps + 1]>>

C4_Witness ==
    /\ pc = "body"
    /\ config.batch_size = 2
    /\ feed.i >= 1
    /\ feed.y[1] # feed.y[0]

RECURSIVE FlattenRows(_, _, _)
FlattenRows(d, rows, r) == IF r >= rows THEN <<>> ELSE
    [k \in 1..Cardinality(DOMAIN d[r]) |-> d[r][k - 1]] \o FlattenRows(d, rows, r + 1)

\* C5: for num_rows >= 1 the grid has row_width = L // num_rows columns,
\* num_rows * row_width <= L, and read row by row it is the stream without
\* its last L mod num_rows tokens.
C5_GridSize ==
    FeederRan =>
        /\ batch_width = Len(word_array) \div config.batch_size
        /\ config.batch_size * batch_width <= Len(word_array)
        /\ DOMAIN data = 0..(config.batch_size - 1)
        /\ FlattenRows(data, config.batch_size, 0) =
               SubSeq(word_array, 1, Len(word_array) - (Len(word_array) % config.batch_size))

C5_Witness ==
    /\ FeederRan
    /\ Len(word_array) % config.batch_size # 0
    /\ batch_width >= 2

\* C6: row r of the grid is token_stream[r*row_width : (r+1)*row_width].
C6_RowsContiguous ==
    FeederRan =>
        \A r \in 0..(config.batch_size - 1) :
            /\ DOMAIN data[r] = 0..(row_width - 1)
            /\ \A c \in 0..(row_width - 1) : data[r][c] = word_array[r * row_width + c + 1]

C6_Witness ==
    /\ FeederRan
    /\ config.batch_size = 2
    /\ batch_width >= 3
    /\ data[1][0] # data[0][1]

\* C7: with num_rows <= 0 or row_width < num_steps + 1, setting up the feeder
\* fails with ConfigError: the run does not get past the set-up without it.
InvalidConfig ==
    \/ config.batch_size <= 0
    \/ row_width < num_steps + 1

C7_ConfigError ==
    InvalidConfig => (pc \in {"start", "epochs"} /\ e = 0) \/ raised = "ConfigError"

\* C8: every pass of feeder() is made on the same stream and configuration
\* and yields the same set of batches as the first one.
C8_Restartable ==
    \A p \in 1..Len(passes) :
        /\ passes[p].w = passes[1].w
        /\ passes[p].cfg = passes[1].cfg
        /\ passes[p].batches = passes[1].batches
        /\ word_array = passes[p].w
        /\ config = passes[p].cfg

C8_Witness ==
    /\ Len(passes) = 2
    /\ Cardinality(passes[1].batches) >= 3
    /\ passes[1].first # passes[2].first

\* C27: every start column i that feeder() has shuffled, and so every batch
\* it yields, reads columns inside the grid only: 0 <= i, the window
\* i .. i+num_steps-1 is not cut short, the target column i+num_steps is at
\* most row_width - 1, and no IndexError is raised.
C27_ColumnsInRange ==
    /\ raised # "IndexError"
    /\ (FeederRan /\ raised = "none") =>
          \A k \in 1..Len(shuffle_index) :
              /\ shuffle_index[k] >= 0
              /\ shuffle_index[k] + num_steps <= row_width - 1
              /\ \A r \in DOMAIN data :
                    Len(feeder_x(data, config, batch_width, shuffle_index[k])[r]) = num_steps
    /\ (pc = "body") =>
          \A r \in DOMAIN feed.x : DOMAIN feed.x[r] = 1..num_steps /\ Len(feed.y[r]) = 1

C27_Witness ==
    /\ pc = "body"
    /\ config.batch_size = 2
    /\ num_steps = 1
    /\ feed.i >= 1
    /\ feed.i + num_steps = row_width - 2
    /\ feed.y[1] = <<data[1][row_width - 2]>>

(***************************************************************************)
(* Properties of cell()                                                    *)
(***************************************************************************)
CellReturned == cell_h # <<>>
Z(j) == cell_z(cell_x, cell_h_1, cell_params)[j]
Candidate(j) == cell_h_tild(cell_x, cell_h_1, cell_params)[j]

C10_SharedInitialState ==
    (pc = "body") =>
        \A r1, r2 \in Lanes(config) : model_s0(h_init, r1) = model_s0(h_init, r2)

\* the h_0 parameter of lane 0
H0 == h_init[0]
Unrolled == pc = "minimize"

\* C11: the first cell() application of every window gets the h_0 parameter as
\* its state, whatever the last state of the window processed before it was.
C11_StateReset ==
    (pc \in {"unroll", "minimize"} /\ applied # <<>>) => applied[1].h_1 = H0

C11_Witness ==
    /\ pc = "unroll"
    /\ step >= 1
    /\ applied # <<>>
    /\ rnn_last_output # H0
    /\ H0 # init_rnn_cell(config)[0]

\* C12: when the state is handed to the hidden layer, cell() has been applied
\* exactly num_steps times; application t got column t of the window and the
\* state returned by application t-1, h_0 for t = 0; the state handed over is
\* the one returned by the last application.
C12_Unrolling ==
    Unrolled =>
        /\ Len(applied) = num_steps
        /\ \A t \in 1..Len(applied) :
              /\ applied[t].i = t - 1
              /\ applied[t].x = embedding_lookup(feed.x[0][t])
              /\ applied[t].h_1 = (IF t = 1 THEN H0 ELSE applied[t - 1].h)
              /\ applied[t].h = cell(applied[t].x, applied[t].h_1, cell_params)
        /\ Len(applied) >= 1 => rnn_last_output = applied[Len(applied)].h

C12_Witness ==
    /\ Unrolled
    /\ num_steps = 2
    /\ feed.x[0][1] # feed.x[0][2]
    /\ applied[1].h # applied[2].h
    /\ applied[1].h # H0

C12_WitnessOneStep ==
    /\ Unrolled
    /\ num_steps = 1
    /\ rnn_last_output = cell(embedding_lookup(feed.x[0][1]), H0, cell_params)
    /\ rnn_last_output # H0

(***************************************************************************)
(* Properties of the Train cell                                            *)
(***************************************************************************)

\* batches of one epoch: the number of start columns feeder() goes through
EpochBatches ==
    IF config.batch_size = 0 THEN 0 ELSE Max(0, row_width - num_steps - 1)

\* batches whose sess.run has returned, from the position in the loops
Processed ==
    CASE pc \in {"epochs", "done"}        -> e * EpochBatches
      [] pc = "iter" /\ gen = "created"   -> e * EpochBatches
      [] pc = "iter" /\ gen # "created"   -> e * EpochBatches + pos
      [] pc = "body"                      -> e * EpochBatches + pos - 1
      [] pc \in {"record", "epoch_end"}   -> e * EpochBatches + pos
      [] OTHER                            -> 0

Newest == checkpoints[Len(checkpoints)]

RECURSIVE SumLoss(_)
SumLoss(a) == IF a = <<>> THEN 0 ELSE Head(a).loss + SumLoss(Tail(a))

\* C13: global_step is 0 before the first batch and, after k batches in all,
\* over however many epochs, it is k.
C13_StepCounts == step = Processed

C13_Witness ==
    /\ pc = "record"
    /\ e >= 1
    /\ pos = 2
    /\ step = 4

\* C14: consecutive batches write consecutive slots of the buffer, the slot
\* written holds the batch's loss, and the value printed at the end of an
\* epoch is the mean of the losses of the last move_avg_len batches (of all
\* batches, while fewer have been processed).
C14_CircularBuffer ==
    /\ \A j \in 1..(Len(recent) - 1) :
          recent[j + 1].slot = (recent[j].slot + 1) % move_avg_len
    /\ (pc = "iter" /\ gen = "running" /\ pos >= 1) =>
          move_avg_loss[recent[Len(recent)].slot + 1] = recent[Len(recent)].loss
    /\ (pc = "epochs" /\ e >= 1 /\ recent # <<>>) =>
          reported.sum * Len(recent) = SumLoss(recent) * reported.over

\* C15: a checkpoint is written only at the end of an epoch, when all batches
\* of the epoch have been processed; exactly one file is added and its tag is
\* the epoch index.
C15_CheckpointPerEpoch ==
    [][IF pc = "epoch_end"
       THEN /\ step = (e + 1) * EpochBatches
            /\ checkpoints' # <<>>
            /\ checkpoints'[Len(checkpoints')].tag = e
            /\ \A j \in 1..(Len(checkpoints') - 1) :
                  \E k \in 1..Len(checkpoints) : checkpoints'[j] = checkpoints[k]
       ELSE checkpoints' = checkpoints]_vars

C15_Witness ==
    /\ pc = "epochs"
    /\ e = 2
    /\ Len(checkpoints) = 2
    /\ Newest.tag = 1
    /\ Newest.step = 4

\* C16: at most max_to_keep = 2 checkpoints are kept, and once the checkpoint
\* of epoch e-1 is written they are those of epochs max(0, e-2) .. e-1, oldest
\* first.
C16_Retention ==
    /\ Len(checkpoints) <= 2
    /\ Len(checkpoints) = Min(e, 2)
    /\ \A j \in 1..Len(checkpoints) : checkpoints[j].tag = e - Len(checkpoints) + j - 1

C16_Witness ==
    /\ e = 3
    /\ Len(checkpoints) = 2
    /\ checkpoints[1].tag = 1
    /\ checkpoints[2].tag = 2
    /\ step = 3

\* C17: the buffer is written only once the update of the same batch has been
\* applied, and the update itself leaves it alone; a batch is handed to the
\* loop body only when the batches before it are completely processed; the
\* checkpoint of an epoch is written when the last batch of the epoch has
\* been updated and recorded, and the batches of the next epoch find it there.
C17_Ordered ==
    [][/\ (pc = "body") => move_avg_loss' = move_avg_loss
       /\ (move_avg_loss' # move_avg_loss \/ recent' # recent) =>
             /\ pc = "record"
             /\ step = e * EpochBatches + pos
             /\ h_init' = h_init
             /\ step' = step
       /\ (pc' = "body") =>
             /\ pc = "iter"
             /\ step = e * EpochBatches + pos
             /\ Len(recent) = Min(step, move_avg_len)
             /\ Len(checkpoints) = Min(e, 2)
             /\ (e >= 1 => Newest.tag = e - 1 /\ Newest.step = step - pos)
       /\ (checkpoints' # checkpoints) =>
             /\ pc = "epoch_end"
             /\ pos = EpochBatches
             /\ step = (e + 1) * EpochBatches
             /\ Len(recent) = Min(step, move_avg_len)
             /\ pc' = "epochs"
             /\ e' = e + 1]_vars

C17_Witness ==
    /\ pc = "record"
    /\ e = 1
    /\ pos = 2
    /\ Newest.tag = 0
    /\ Newest.step = 2
    /\ step = 4
    /\ h_init # Newest.h_init

\* C18: wherever the run is cut off, there is no checkpoint while the first
\* epoch is not complete, and afterwards the newest checkpoint is the one of
\* the last completed epoch: it was written from the variables as they were
\* after the last batch of that epoch and is not touched by later batches.
C18_LostProgress ==
    /\ [](IF e = 0
          THEN checkpoints = <<>>
          ELSE /\ checkpoints # <<>>
               /\ Newest.tag = e - 1
               /\ Newest.step = e * EpochBatches)
    /\ [][IF pc = "epoch_end"
          THEN /\ step = (e + 1) * EpochBatches
               /\ checkpoints'[Len(checkpoints')].h_init = h_init
               /\ checkpoints'[Len(checkpoints')].step = step
          ELSE checkpoints' = checkpoints]_vars

C18_Witness ==
    /\ pc = "record"
    /\ e = 2
    /\ Newest.tag = 1
    /\ Newest.h_init # h_init
    /\ Newest.h_init # init_rnn_cell(config)

C18_WitnessFirstEpoch ==
    /\ pc = "record"
    /\ e = 0
    /\ step = 2
    /\ h_init # init_rnn_cell(config)
    /\ checkpoints = <<>>

(***************************************************************************)
(* Properties of the Predict cell                                          *)
(***************************************************************************)
Seed == PySlice(word_array, start, start + num_steps)
Predicting == pc \in {"predict", "predict_loop"} /\ (runs > 0 \/ pc = "predict_loop")

\* C19: with a seed of num_steps tokens, iteration i feeds the last num_steps
\* tokens of the sequence built so far and appends the prediction: after i
\* iterations the sequence has num_steps + i tokens and starts with the seed.
C19_SlidingWindow ==
    (Predicting /\ Len(Seed) = num_steps) =>
        /\ raised = "none"
        /\ Len(input) = num_steps + pred_i
        /\ SubSeq(input, 1, num_steps) = Seed
        /\ pred_i >= 1 =>
              /\ feed.i = pred_i - 1
              /\ feed.x[0] = SubSeq(input, Len(input) - num_steps, Len(input) - 1)
              /\ input[Len(input)] = pred

C19_Witness ==
    /\ pc = "predict"
    /\ runs = 1
    /\ num_steps = 2
    /\ Len(input) = num_steps + pred_iterations
    /\ \E k \in 1..(Len(input) - 1) : input[k] # input[k + 1]
    /\ feed.x[0] # Seed

Parameters == <<h_init, cell_params, restored>>

C21_WitnessForward ==
    /\ pc = "minimize"
    /\ step = 1
    /\ num_steps = 2
    /\ h_init # init_rnn_cell(config)
    /\ rnn_last_output # H0

C21_WitnessPredict ==
    /\ pc = "predict"
    /\ runs = 2
    /\ restored \in Checkpoints
    /\ Len(input) = num_steps + pred_iterations

(***************************************************************************)
(* Properties of a second execution of the Train cell                      *)
(***************************************************************************)

\* C22: a second execution on the same configuration and stream, whatever
\* losses its batches return, goes through as many batches in each epoch as
\* the first, and ends with the same global_step, the same number of epochs
\* and checkpoints and the same tags.
C22_LossBlind ==
    train_run = 1 =>
        /\ Len(passes) <= Len(first_train.control.batches)
        /\ \A k \in 1..Len(passes) :
              Cardinality(passes[k].batches) = first_train.control.batches[k]
        /\ pc \in {"done", "error"} => TrainControl = first_train.control

C22_Witness ==
    /\ train_run = 1
    /\ pc = "done"
    /\ e = 2
    /\ step = 4
    /\ batch_loss # first_train.loss
    /\ TrainControl.tags = <<0, 1>>

(***************************************************************************)
(* Properties of a run that diverges                                       *)
(***************************************************************************)

\* C23: once the sess.run of a batch has returned a non-finite loss, a
\* NumericInstabilityWarning has been reported, no exception is raised, and
\* the run goes on to the next batch.
C23_InstabilityReported ==
    (pc \in {"record", "iter"} /\ batch_loss >= 0 /\ ~IsFinite(batch_loss)) =>
        /\ "NumericInstabilityWarning" \in Warnings
        /\ raised = "none"

(***************************************************************************)
(* Properties of a failing checkpoint write                                *)
(***************************************************************************)

\* C24: a step in which the checkpoint write fails surfaces the failure, leaves
\* the variables of the session as they were, and leaves the run in the epoch
\* loop, so that the next epoch, if any, can be trained.
C24_SaveFailureSurvived ==
    [][(pc = "epoch_end" /\ checkpoints' = checkpoints) =>
          /\ raised' # "none"
          /\ h_init' = h_init
          /\ step' = step
          /\ pc' = "epochs"
          /\ e' = e + 1]_vars

(***************************************************************************)
(* Properties of the loss buffer at the end of an epoch                    *)
(***************************************************************************)

\* the epoch line has just been printed from the buffer as it stands
EpochReported == pc = "epochs" /\ e >= 1

\* C25: when the loss of an epoch is printed, every slot of the buffer holds
\* the loss of a batch that was processed (losses are positive, so a slot that
\* is still 0 has never been written), also when fewer than move_avg_len
\* batches have been processed so far.
C25_NoInitialZeros ==
    EpochReported =>
        /\ \A k \in 1..move_avg_len : move_avg_loss[k] \in Losses
        /\ reported.sum >= reported.over

(***************************************************************************)
(* Properties of the epochs of a run                                       *)
(***************************************************************************)

\* the configurations the TokenGrid contract accepts
GridAccepted == config.batch_size >= 1 /\ row_width >= num_steps + 1

\* C26: with num_rows >= 1 and row_width >= num_steps + 1, when the pass of an
\* epoch is over and its loss is about to be printed and its checkpoint
\* written, at least one batch of the epoch has been processed.
C26_EpochHasBatch ==
    (GridAccepted /\ pc = "epoch_end") =>
        /\ pos >= 1
        /\ step >= e + 1

(***************************************************************************)
(* Properties of a run as a whole                                          *)
(***************************************************************************)

\* C28: a run with num_rows >= 1 reaches the end of the Train cell; at the end
\* it has processed epochs * max(0, row_width - num_steps - 1) batches and gone
\* through all its epochs; a checkpoint is written once per epoch, the file of
\* epoch e with tag e, for e = 0 .. epochs-1 in this order; and after the end
\* nothing more happens.
C28_Terminates ==
    /\ (config.batch_size >= 1) ~> (pc = "done")
    /\ [](pc = "done" =>
            /\ step = config.epochs * EpochBatches
            /\ e = config.epochs
            /\ raised = "none"
            /\ Len(passes) = config.epochs
            /\ \A k \in 1..Len(passes) : Cardinality(passes[k].batches) = EpochBatches
            /\ checkpoints # <<>>
            /\ Newest.tag = config.epochs - 1)
    /\ [][/\ pc # "done"
          /\ (checkpoints' # checkpoints) =>
                /\ e < config.epochs
                /\ checkpoints'[Len(checkpoints')].tag = e
                /\ e' = e + 1
          /\ (e' # e) => (e' = e + 1 /\ checkpoints' # checkpoints)]_vars

C28_Witness ==
    /\ pc = "done"
    /\ config.epochs = 3
    /\ step = 3
    /\ Len(passes) = 3
    /\ checkpoints[1].tag = 1
    /\ Newest.tag = 2

(***************************************************************************)
(* Properties of the checkpoint files                                      *)
(***************************************************************************)

\* C29: the variables in every checkpoint file have the shapes they have in a
\* graph of one lane, whatever batch_size the run that wrote them had, and
\* restoring the last file into a graph built with batch_size = 1 succeeds.
C29_ShapesLaneFree ==
    /\ \A k \in 1..Len(checkpoints) :
          Shape(checkpoints[k].h_init) = Shape(init_rnn_cell([config EXCEPT !.batch_size = 1]))
    /\ raised # "InvalidArgumentError"

(***************************************************************************)
(* Properties of the sequence the Predict cell leaves                      *)
(***************************************************************************)

\* C30: when the prediction loop is over, the sequence is the seed followed by
\* pred_length predicted tokens: its length is num_rnn_steps + pred_length.
C30_PredLength ==
    (pc = "predict" /\ runs >= 1 /\ Len(Seed) = num_steps) =>
        /\ pred_i = pred_length
        /\ Len(input) = num_steps + pred_length

====
